---- MODULE Spec2Model ----
(***************************************************************************)
(* BugHunt Live: the match engine (handlers/gameHandlers.js), the parts of *)
(* MatchmakingService it calls, QuestionService.checkAnswer and the        *)
(* BotService answer scheduling, as one state machine for one match.       *)
(*                                                                         *)
(* Node runs every handler to completion, so each action below is a whole  *)
(* handler or timer callback.  Timers are pending-callback state; the      *)
(* guards on the timer actions keep only the firing orders the delays in   *)
(* the code allow (3 s countdown, 1 s first question, 3 s pause, 30 s      *)
(* deadline, at most 15 s for a bot answer).                               *)
(***************************************************************************)
EXTENDS Integers, Sequences, FiniteSets, TLC

\* ---------------------------------------------------------------- constants

QUESTIONS_PER_GAME == 5

basePoints == 100

\* milliseconds
QUESTION_TIME_LIMIT == 30000

\* How many submit_answer messages the clients send in the explorations that
\* bound them: a match with bots (Spec), a match with a failing database
\* (SpecPersist) and a match over the long pool (SpecLong).
MaxSubmits == 1

MaxSubmitsLong == 2

Humans == {"h1", "h2"}

\* How many join_queue messages the clients send in SpecQueue
MaxJoins == 3

\* preference keys "language:difficulty" a join_queue can name
PrefKeys == {"javascript:medium", "python:easy"}

\* numBots = 2 + Math.floor(Math.random() * 2)
FillBotCounts == {2, 3}

Bots == {"b1", "b2", "b3"}

\* createMatchWithBots draws 2 or 3 bots; the model explores the 2-bot roster
BotCounts == {2}

MatchId == "m1"

\* The ids of the questions loaded for the match's language: the pool of Spec
\* (every question is selected) and the longer pool of SpecLong.
QuestionPool == {1, 2}

LongQuestionPool == {1, 2, 3}

\* choice ids of a question; a submitted answerId is drawn from them
Choices == {"a", "b"}

\* an id that no loaded question has
UnknownQuestionId == Cardinality(LongQuestionPool) + 1

\* question.correctAnswer of the pool's questions (content of the data files)
correctAnswer(questionId) == IF questionId % 2 = 1 THEN "a" ELSE "b"

\* languages with a loaded pool; getQuestionForClient's default is the first
DefaultLanguage == "javascript"

Languages == {"javascript", "python"}

\* The ids of the default language's questions when the match plays another
\* language (the data files are separate; this one shares an id with them).
DefaultPoolIds == {1}

\* the client-visible content of a question: code, question text and choices
questionContent(language, questionId) == <<language, questionId>>

\* difficulties of the metadata and their seconds per question
Difficulties == {"easy", "medium", "hard"}

\* getTimeLimit: the difficulty's timeLimit, 30 for an unknown difficulty
getTimeLimit(difficulty) ==
    CASE difficulty = "easy" -> 60
      [] difficulty = "medium" -> 30
      [] difficulty = "hard" -> 15
      [] OTHER -> 30

Min(a, b) == IF a < b THEN a ELSE b

Range(f) == {f[i] : i \in DOMAIN f}

\* ---------------------------------------------------------------- state

VARIABLES
    questionsByLanguage, \* QuestionService: the loaded pool (ids) of the language
    game,        \* the gameState object of the match (status "none": not created)
    activeGames, \* MatchmakingService.activeGames (set of match ids)
    timers,      \* pending setTimeout callbacks and suspended continuations
    out,         \* what has been emitted to the room / persistence so far
    connected,   \* sockets that have not disconnected
    crashed,     \* the process ended on an uncaught exception
    lastEvent,   \* the handler that ran last and what it decided
    budget,      \* client messages still to come (-1: any number)
    waitingPlayersByPreference, \* MatchmakingService: the buckets, in Map order
    queueTimers, \* MatchmakingService.queueTimers: socket -> its fill timer
    joining,     \* join_queue handlers suspended in their database lookup
    matches,     \* every match createMatch(WithBots) made, in creation order
    usedBotNames, \* BotService.usedBotNames: the reserved filler names
    activeBots   \* BotService.activeBots: matchId -> the usernames of its bots

\* the matchmaking state, explored by SpecQueue
queueVars == <<waitingPlayersByPreference, queueTimers, joining, matches>>

\* the state of the one match whose play Spec explores
matchVars == <<questionsByLanguage, game, activeGames, timers, out, crashed>>

\* the name reservations of BotService, explored by SpecBots
botVars == <<usedBotNames, activeBots>>

vars == <<questionsByLanguage, game, activeGames, timers, out, connected, crashed,
          lastEvent, budget, waitingPlayersByPreference, queueTimers, joining,
          matches, usedBotNames, activeBots>>

NoGame ==
    [status |-> "none", order |-> <<>>, players |-> <<>>, questions |-> <<>>,
     currentQuestionIndex |-> 0, language |-> DefaultLanguage,
     questionTimeLimit |-> 0]

NoTimers ==
    [start |-> FALSE, first |-> -1, next |-> 0, deadline |-> <<>>, bot |-> {},
     teardown |-> <<>>, cleanup |-> 0]

\* What the last resumed endGame did after saveMatch: the participants it
\* worked on, whether saveMatch failed, and for whom updatePlayerProfileStats
\* and insertPlayerMatchHistory were called.
NoPersist ==
    [players |-> <<>>, saveFailed |-> FALSE, attempted |-> {}, inserted |-> {}]

\* The counters and question/resolvedEarly accumulate over the match.
\* finalScores, winner, saved, calls, persist and sent are what the handler that
\* ran last put out: the game_end payload, the players handed to db.saveMatch,
\* the order of the two calls, the work of a resumed endGame, and the question
\* and answer_result messages with their recipients.
NoOutput ==
    [question |-> <<>>, roundScores |-> <<>>, gameStart |-> 0, gameEnd |-> 0,
     saveMatch |-> 0, playerLeft |-> 0, resolvedEarly |-> {},
     finalScores |-> <<>>, winner |-> "none", saved |-> <<>>, calls |-> <<>>,
     persist |-> NoPersist, sent |-> <<>>]

NoEvent == [type |-> "init", result |-> ""]

\* type: the handler that ran; result: what it decided
Event(t, r) == [type |-> t, result |-> r]

\* The state a handler works on; threw: an exception is propagating out of the
\* running handler; rejected: an async function's promise was rejected unhandled.
State ==
    [game |-> game, activeGames |-> activeGames, timers |-> timers,
     out |-> [out EXCEPT !.finalScores = <<>>, !.winner = "none", !.saved = <<>>,
                         !.calls = <<>>, !.persist = NoPersist, !.sent = <<>>],
     threw |-> FALSE, rejected |-> FALSE]

\* ---------------------------------------------------------------- QuestionService

\* getQuestionsForMatch: a fresh shuffle of the pool, cut to min(count, length).
\* Question ids are opaque (the code only compares them), and one match is
\* modelled, so the pool's questions are named by their place in its shuffle.
getQuestionsForMatch(count) ==
    [i \in 1 .. Min(count, Cardinality(questionsByLanguage)) |-> i]

checkAnswer(questionId, answerId) ==
    IF questionId \notin questionsByLanguage
    THEN [isValid |-> FALSE, isCorrect |-> FALSE, points |-> 0]
    ELSE [isValid |-> TRUE,
          isCorrect |-> (correctAnswer(questionId) = answerId),
          points |-> IF correctAnswer(questionId) = answerId THEN basePoints ELSE 0]

\* this.questionsByLanguage.get(language) || this.questionsByLanguage.get(
\* 'javascript'): the pool searched for a match of matchLanguage, whose own
\* pool is questionsByLanguage
questionPoolOf(language, matchLanguage) ==
    IF language = matchLanguage THEN [language |-> language, ids |-> questionsByLanguage]
    ELSE IF language \in Languages THEN [language |-> language, ids |-> DefaultPoolIds]
    ELSE IF matchLanguage = DefaultLanguage
         THEN [language |-> DefaultLanguage, ids |-> questionsByLanguage]
         ELSE [language |-> DefaultLanguage, ids |-> DefaultPoolIds]

\* (mutant) getQuestionForClient handing out the whole question object
getQuestionForClientWhole(questionId, language, matchLanguage) ==
    LET questionPool == questionPoolOf(language, matchLanguage) IN
    IF questionId \notin questionPool.ids THEN <<>>
    ELSE [id |-> questionId,
          content |-> questionContent(questionPool.language, questionId),
          correctAnswer |-> correctAnswer(questionId)]

\* getQuestionForClient: the question without its correct answer; null (no
\* property at all once spread into the payload) when the pool has no such id
getQuestionForClient(questionId, language, matchLanguage) ==
    LET questionPool == questionPoolOf(language, matchLanguage) IN
    IF questionId \notin questionPool.ids THEN <<>>
    ELSE [id |-> questionId,
          content |-> questionContent(questionPool.language, questionId)]

\* ---------------------------------------------------------------- game helpers

\* player.answers.some(a => a.questionId === questionId)
HasAnswered(player, questionId) ==
    \E i \in DOMAIN player.answers : player.answers[i].questionId = questionId

ActivePlayers(g) == {id \in DOMAIN g.players : g.players[id].isActive}

\* (mutant) the all-answered check without the isActive filter
AllAnsweredUnfiltered(g, questionId) ==
    \A id \in DOMAIN g.players : HasAnswered(g.players[id], questionId)

\* Array.from(game.players.values()).filter(p => p.isActive).every(answered)
AllAnswered(g, questionId) ==
    \A id \in ActivePlayers(g) : HasAnswered(g.players[id], questionId)

HasCurrentQuestion(g) == g.currentQuestionIndex < Len(g.questions)

CurrentQuestionId(g) == g.questions[g.currentQuestionIndex + 1]

\* the sockets in the room match-${matchId}: the roster's humans
room(g) == {id \in DOMAIN g.players : ~g.players[id].isBot}

\* matchmakingService.getGameBySocket(socketId)
getGameBySocket(s, socketId) ==
    MatchId \in s.activeGames /\ socketId \in DOMAIN s.game.players

\* ---------------------------------------------------------------- match engine
\* Each operator maps the state a handler works on to the state after the call.

\* sendRoundScores: currentQuestion.id is read once per active player, so with
\* no current question (index past the end) and an active player it throws a
\* TypeError before anything is emitted.  The broadcast is counted under the
\* index it was computed for (slot Len(questions)+1: no current question).
sendRoundScores(s) ==
    LET g == s.game
        slot == Min(g.currentQuestionIndex, Len(g.questions)) + 1
    IN  IF ~HasCurrentQuestion(g) /\ ActivePlayers(g) # {}
        THEN [s EXCEPT !.threw = TRUE]
        ELSE [s EXCEPT !.out.roundScores[slot] = @ + 1]

\* a resolved round that sets no pause timer
scheduleNothing(s) == s

\* setTimeout(() => nextQuestion(io, matchId, game), NEXT_QUESTION_DELAY)
scheduleNextQuestion(s) == [s EXCEPT !.timers.next = @ + 1]

\* MatchmakingService.endGame(matchId)
matchmakingEndGame(s) ==
    IF MatchId \in s.activeGames
    THEN [s EXCEPT !.game.status = "completed", !.timers.cleanup = @ + 1]
    ELSE s

\* (mutant) a sort that puts an element before the elements of equal score
InsertByScoreBeforeTies(sorted, e) ==
    LET k == Cardinality({i \in DOMAIN sorted : sorted[i].score > e.score})
    IN  SubSeq(sorted, 1, k) \o <<e>> \o SubSeq(sorted, k + 1, Len(sorted))

\* One insertion of the stable sort((a, b) => b.score - a.score): e goes after
\* every element whose score is at least its own.
InsertByScore(sorted, e) ==
    LET k == Cardinality({i \in DOMAIN sorted : sorted[i].score >= e.score})
    IN  SubSeq(sorted, 1, k) \o <<e>> \o SubSeq(sorted, k + 1, Len(sorted))

RECURSIVE SortByScore(_)
\* Array.prototype.sort with (a, b) => b.score - a.score (stable)
SortByScore(seq) ==
    IF seq = <<>> THEN <<>>
    ELSE InsertByScore(SortByScore(SubSeq(seq, 1, Len(seq) - 1)), seq[Len(seq)])

\* endGame's finalScores: the active players in Map (roster) order, mapped to
\* their result, sorted by score, ranked by position.
FinalScores(g) ==
    LET active == SelectSeq(g.order, LAMBDA id : g.players[id].isActive)
        mapped == [i \in DOMAIN active |->
                     [id |-> active[i], score |-> g.players[active[i]].score,
                      isBot |-> g.players[active[i]].isBot]]
        sorted == SortByScore(mapped)
    IN  [i \in DOMAIN sorted |->
           [id |-> sorted[i].id, score |-> sorted[i].score,
            isBot |-> sorted[i].isBot, rank |-> i]]

\* (mutant) every entry of the standings is handed to db.saveMatch
HumanPlayersUnfiltered(finalScores) == finalScores

\* finalScores.filter(p => !p.isBot)
HumanPlayers(finalScores) == SelectSeq(finalScores, LAMBDA p : ~p.isBot)

\* endGame up to its first await.  With no active player finalScores is empty
\* and winner.username throws inside the async function: the promise is
\* rejected, nothing is emitted or saved and the teardown call is never reached.
\* Otherwise game_end is broadcast, then db.saveMatch is called when the
\* standings hold a human, and the rest runs after the awaits.
endGame(s) ==
    LET g == s.game
        finalScores == FinalScores(g)
        humanPlayers == HumanPlayers(finalScores)
        ids == [i \in DOMAIN humanPlayers |-> humanPlayers[i].id]
        s1 == [s EXCEPT !.game.status = "completed"]
    IN  IF finalScores = <<>>
        THEN [s1 EXCEPT !.rejected = TRUE]
        ELSE LET s2 == [s1 EXCEPT !.out.gameEnd = @ + 1,
                                  !.out.finalScores = finalScores,
                                  !.out.winner = finalScores[1].id,
                                  !.out.saved = <<>>,
                                  !.out.calls = <<"game_end">>]
             IN  IF humanPlayers # <<>>
                 THEN [s2 EXCEPT !.out.saveMatch = @ + 1,
                                 !.out.saved = ids,
                                 !.out.calls = Append(@, "saveMatch"),
                                 !.timers.teardown = Append(@, [players |-> ids])]
                 ELSE [s2 EXCEPT !.timers.teardown = Append(@, [players |-> <<>>])]

RECURSIVE updateProfiles(_, _, _)
\* for (const player of humanPlayers) { try { updatePlayerProfileStats;
\* insertPlayerMatchHistory } catch { log } }: the update of a player in
\* `failing` throws, which skips that player's history insert only.
updateProfiles(players, failing, done) ==
    IF players = <<>> THEN done
    ELSE LET p == Head(players)
             d == [done EXCEPT !.attempted = @ \cup {p}]
         IN  updateProfiles(Tail(players), failing,
                            IF p \in failing THEN d
                            ELSE [d EXCEPT !.inserted = @ \cup {p}])

\* (mutant) a failed saveMatch leaves the function: no teardown
endGameResumeUncaught(s, i, saveFails, failing) ==
    LET c == s.timers.teardown[i]
        rest == [j \in 1 .. Len(s.timers.teardown) - 1 |->
                   IF j < i THEN s.timers.teardown[j] ELSE s.timers.teardown[j + 1]]
        start == [NoPersist EXCEPT !.players = c.players]
        s1 == [s EXCEPT !.timers.teardown = rest]
    IN  IF c.players # <<>> /\ saveFails
        THEN [s1 EXCEPT !.out.persist = [start EXCEPT !.saveFailed = TRUE]]
        ELSE matchmakingEndGame(
                 [s1 EXCEPT !.out.persist = updateProfiles(c.players, failing, start)])

\* endGame from the return of db.saveMatch on, for the i-th suspended call:
\* a failed saveMatch skips the player loop (outer catch), then
\* matchmakingService.endGame(matchId) in every case.
endGameResume(s, i, saveFails, failing) ==
    LET c == s.timers.teardown[i]
        rest == [j \in 1 .. Len(s.timers.teardown) - 1 |->
                   IF j < i THEN s.timers.teardown[j] ELSE s.timers.teardown[j + 1]]
        start == [NoPersist EXCEPT !.players = c.players]
        persist == IF c.players # <<>> /\ saveFails
                   THEN [start EXCEPT !.saveFailed = TRUE]
                   ELSE updateProfiles(c.players, failing, start)
    IN  matchmakingEndGame([s EXCEPT !.timers.teardown = rest,
                                     !.out.persist = persist])

\* sendQuestion: botAnswers[b] is the answer getBotAnswer draws for bot b when
\* simulateBotAnswer schedules it.  The deadline timer remembers the question
\* it was scheduled for; seq numbers the emission, older counts the pause
\* timers that were already pending (they fire within 3 s, before the 30 s).
sendQuestion(s, botAnswers) ==
    LET g == s.game IN
    IF g.currentQuestionIndex >= Len(g.questions)
    THEN endGame(s)
    ELSE LET questionId == CurrentQuestionId(g)
             seq == Len(s.out.question) + 1
             activeGameBots == {b \in ActivePlayers(g) : g.players[b].isBot}
             questionData == getQuestionForClient(questionId, DefaultLanguage, g.language)
         IN  [s EXCEPT
                !.out.question = Append(@, g.currentQuestionIndex),
                !.out.sent = Append(@,
                    [type |-> "question", to |-> room(g), questionId |-> questionId,
                     payload |-> questionData @@
                                 [questionNumber |-> g.currentQuestionIndex + 1,
                                  totalQuestions |-> Len(g.questions)]]),
                !.timers.bot = @ \cup
                    {[bot |-> b, questionId |-> questionId,
                      answerId |-> botAnswers[b], seq |-> seq] : b \in activeGameBots},
                !.timers.deadline = Append(@,
                    [questionId |-> questionId, seq |-> seq, older |-> s.timers.next,
                     delay |-> QUESTION_TIME_LIMIT])]

\* (mutant) an index that wraps to the first question after the second
IncrementIndexWrapping(i) == IF i >= 1 THEN 0 ELSE i + 1

\* game.currentQuestionIndex++
IncrementIndex(i) == i + 1

\* nextQuestion
nextQuestion(s, botAnswers) ==
    LET s1 == [s EXCEPT !.game.currentQuestionIndex = IncrementIndex(@)] IN
    IF s1.game.currentQuestionIndex >= Len(s1.game.questions)
    THEN endGame(s1)
    ELSE sendQuestion(s1, botAnswers)

\* startGame
startGame(s) ==
    [s EXCEPT !.game.status = "in_progress",
              !.out.gameStart = @ + 1,
              !.timers.first = s.timers.next]

\* History only: the round of the current question was resolved by the
\* all-answered check on that question's id.
markResolvedEarly(s, questionId) ==
    IF HasCurrentQuestion(s.game) /\ CurrentQuestionId(s.game) = questionId
    THEN [s EXCEPT !.out.resolvedEarly = @ \cup {s.game.currentQuestionIndex}]
    ELSE s

\* The tail shared by submit_answer and handleBotAnswer: the all-answered check
\* on the submitted question id, the broadcast and the pause timer.
resolveIfAllAnswered(s, questionId) ==
    IF AllAnswered(s.game, questionId)
    THEN LET s1 == sendRoundScores(s) IN
         IF s1.threw THEN s1 ELSE scheduleNextQuestion(markResolvedEarly(s1, questionId))
    ELSE s

\* (mutant) the record is pushed but the points are not added to the score
recordAnswerUnscored(s, id, questionId, answerId) ==
    LET r == checkAnswer(questionId, answerId) IN
    [s EXCEPT !.game.players[id].answers =
                  Append(@, [questionId |-> questionId, answerId |-> answerId,
                             isCorrect |-> r.isCorrect, points |-> r.points])]

\* player.answers.push(answerData); player.score += result.points
recordAnswer(s, id, questionId, answerId) ==
    LET r == checkAnswer(questionId, answerId) IN
    [s EXCEPT !.game.players[id].answers =
                  Append(@, [questionId |-> questionId, answerId |-> answerId,
                             isCorrect |-> r.isCorrect, points |-> r.points]),
              !.game.players[id].score = @ + r.points]

\* (mutant) submit_answer without the already-submitted check
submitOutcomeNoDuplicateCheck(s, socketId, questionId, answerId) ==
    IF ~getGameBySocket(s, socketId) THEN "not_in_game"
    ELSE IF ~s.game.players[socketId].isActive THEN "ignored"
    ELSE IF ~checkAnswer(questionId, answerId).isValid THEN "invalid"
    ELSE "accepted"

\* What the submit_answer handler decides for (socket, questionId), in the
\* order of its checks.
submitOutcome(s, socketId, questionId, answerId) ==
    IF ~getGameBySocket(s, socketId) THEN "not_in_game"
    ELSE IF ~s.game.players[socketId].isActive THEN "ignored"
    ELSE IF HasAnswered(s.game.players[socketId], questionId) THEN "duplicate"
    ELSE IF ~checkAnswer(questionId, answerId).isValid THEN "invalid"
    ELSE "accepted"

\* socket.on('submit_answer')
submitAnswer(s, socketId, questionId, answerId) ==
    IF submitOutcome(s, socketId, questionId, answerId) = "accepted"
    THEN LET s1 == recordAnswer(s, socketId, questionId, answerId)
             s2 == [s1 EXCEPT !.out.sent = Append(@,
                        [type |-> "answer_result", to |-> {socketId},
                         payload |-> [correct |-> checkAnswer(questionId, answerId).isCorrect,
                                      correctAnswer |-> correctAnswer(questionId),
                                      pointsEarned |-> checkAnswer(questionId, answerId).points],
                         questionId |-> questionId])]
         IN  resolveIfAllAnswered(s2, questionId)
    ELSE s

\* What handleBotAnswer decides; the game object is captured by the timer's
\* closure, so no lookup in activeGames is involved.
botOutcome(s, bot, questionId, answerId) ==
    IF bot \notin DOMAIN s.game.players \/ ~s.game.players[bot].isActive THEN "ignored"
    ELSE IF HasAnswered(s.game.players[bot], questionId) THEN "duplicate"
    ELSE IF ~checkAnswer(questionId, answerId).isValid THEN "invalid"
    ELSE "accepted"

\* handleBotAnswer
handleBotAnswer(s, bot, questionId, answerId) ==
    IF botOutcome(s, bot, questionId, answerId) = "accepted"
    THEN resolveIfAllAnswered(recordAnswer(s, bot, questionId, answerId), questionId)
    ELSE s

\* MatchmakingService.handlePlayerDisconnect on the match (its queue part is leaveAll)
handlePlayerDisconnect(s, socketId) ==
    IF getGameBySocket(s, socketId)
    THEN [s EXCEPT !.game.players[socketId].isActive = FALSE]
    ELSE s

\* (mutant) the per-socket listener ends the match only when no participant
\* at all is active
socketDisconnectAnyActive(s, socketId) ==
    LET s1 == handlePlayerDisconnect(s, socketId) IN
    IF ~getGameBySocket(s, socketId) THEN s1
    ELSE LET s2 == [s1 EXCEPT !.out.playerLeft = @ + 1] IN
         IF ActivePlayers(s2.game) = {} /\ s2.game.status = "in_progress"
         THEN endGame(s2)
         ELSE s2

\* socket.on('disconnect') registered by registerHandlers
socketDisconnect(s, socketId) ==
    LET s1 == handlePlayerDisconnect(s, socketId) IN
    IF ~getGameBySocket(s, socketId) THEN s1
    ELSE LET s2 == [s1 EXCEPT !.out.playerLeft = @ + 1]
             hasHumanPlayers ==
                 \E id \in ActivePlayers(s2.game) : ~s2.game.players[id].isBot
         IN  IF ~hasHumanPlayers /\ s2.game.status = "in_progress"
             THEN endGame(s2)
             ELSE s2

\* handleDisconnect, called by the server's own socket.on('disconnect')
handleDisconnect(s, socketId) ==
    LET s1 == handlePlayerDisconnect(s, socketId) IN
    IF ~getGameBySocket(s, socketId) THEN s1
    ELSE LET s2 == [s1 EXCEPT !.out.playerLeft = @ + 1] IN
         IF ActivePlayers(s2.game) = {}
         THEN matchmakingEndGame(s2)
         ELSE s2

\* the deadline callback of sendQuestion, closed over `question`
deadlineCallback(s, questionId) ==
    IF HasCurrentQuestion(s.game) /\ CurrentQuestionId(s.game) = questionId
    THEN LET s1 == sendRoundScores(s) IN
         IF s1.threw THEN s1 ELSE scheduleNextQuestion(s1)
    ELSE s

\* createMatch / createMatchWithBots: the gameState of a new match
newGame(roster, botSet, questions) ==
    [status |-> "waiting",
     order |-> roster,
     players |-> [id \in Range(roster) |->
                    [score |-> 0, answers |-> <<>>, isActive |-> TRUE,
                     isBot |-> id \in botSet]],
     questions |-> questions,
     currentQuestionIndex |-> 0,
     language |-> DefaultLanguage,
     questionTimeLimit |-> getTimeLimit("medium") * 1000]

\* ---------------------------------------------------------------- actions

\* MatchmakingService constructor: empty maps
NoQueue ==
    /\ waitingPlayersByPreference = <<>>
    /\ queueTimers = <<>>
    /\ joining = <<>>
    /\ matches = <<>>

\* BotService constructor: no name reserved, no bots
NoBots ==
    /\ usedBotNames = {}
    /\ activeBots = <<>>

Init ==
    /\ questionsByLanguage = QuestionPool
    /\ game = NoGame
    /\ activeGames = {}
    /\ timers = NoTimers
    /\ out = NoOutput
    /\ connected = Humans
    /\ crashed = FALSE
    /\ lastEvent = NoEvent
    /\ budget = -1
    /\ NoQueue
    /\ NoBots

\* The handler's result becomes the new state.  An exception leaving a timer
\* callback is uncaught and ends the process; a rejected promise of an async
\* function (submit_answer, endGame) is unhandled, which ends the process or
\* only warns, depending on the Node version.
Finish(s, event, isAsync) ==
    /\ game' = s.game
    /\ activeGames' = s.activeGames
    /\ timers' = s.timers
    /\ out' = s.out
    /\ lastEvent' = event
    /\ UNCHANGED questionsByLanguage
    /\ UNCHANGED <<queueVars, botVars>>
    /\ crashed' \in IF s.threw /\ ~isAsync THEN {TRUE}
                    ELSE IF s.threw \/ s.rejected THEN BOOLEAN
                    ELSE {FALSE}

BotsOf(g) == {id \in DOMAIN g.players : g.players[id].isBot}

\* join_queue of the second player of a bucket: createMatch takes the waiting
\* players in join order, tryStartMatchForPreference selects the questions and
\* starts the countdown.
CreateMatch ==
    /\ ~crashed
    /\ game.status = "none"
    /\ Humans \subseteq connected
    /\ LET questions == getQuestionsForMatch(QUESTIONS_PER_GAME) IN
         /\ game' = newGame(<<"h1", "h2">>, {}, questions)
         /\ out' = [out EXCEPT !.roundScores = [i \in 1 .. Len(questions) + 1 |-> 0]]
    /\ activeGames' = activeGames \cup {MatchId}
    /\ timers' = [timers EXCEPT !.start = TRUE]
    /\ lastEvent' = Event("create", "humans")
    /\ UNCHANGED <<questionsByLanguage, connected, crashed, budget>>
    /\ UNCHANGED <<queueVars, botVars>>

\* The fill timer of a lone waiting player: createMatchWithBots adds 2 or 3
\* bots, startBotMatch selects the questions and starts the countdown.
CreateMatchWithBots ==
    /\ ~crashed
    /\ game.status = "none"
    /\ \E human \in connected, numBots \in BotCounts :
         LET bots == SubSeq(<<"b1", "b2", "b3">>, 1, numBots)
             questions == getQuestionsForMatch(QUESTIONS_PER_GAME)
         IN  /\ game' = newGame(<<human>> \o bots, Range(bots), questions)
             /\ out' = [out EXCEPT !.roundScores = [i \in 1 .. Len(questions) + 1 |-> 0]]
    /\ lastEvent' = Event("create", "bots")
    /\ activeGames' = activeGames \cup {MatchId}
    /\ timers' = [timers EXCEPT !.start = TRUE]
    /\ budget' = MaxSubmits
    /\ UNCHANGED <<questionsByLanguage, connected, crashed>>
    /\ UNCHANGED <<queueVars, botVars>>

\* A client sends submit_answer{questionId, answerId}.
SubmitAnswer ==
    /\ ~crashed
    /\ budget # 0
    /\ budget' = IF budget > 0 THEN budget - 1 ELSE budget
    /\ \E socketId \in connected, answerId \in Choices,
          questionId \in questionsByLanguage \cup {UnknownQuestionId} :
         Finish(submitAnswer(State, socketId, questionId, answerId),
                Event("submit_answer",
                      submitOutcome(State, socketId, questionId, answerId)),
                TRUE)
    /\ UNCHANGED connected

\* A socket disconnects: both 'disconnect' listeners run, in registration order.
Disconnect ==
    /\ ~crashed
    /\ \E socketId \in connected :
         /\ connected' = connected \ {socketId}
         /\ UNCHANGED budget
         /\ Finish(handleDisconnect(socketDisconnect(State, socketId), socketId),
                   Event("disconnect",
                         IF getGameBySocket(State, socketId) THEN "left" ELSE "none"),
                   TRUE)

\* The GAME_START_COUNTDOWN timer fires: startGame.
StartTimer ==
    /\ ~crashed
    /\ timers.start
    /\ Finish(startGame([State EXCEPT !.timers.start = FALSE]),
              Event("start", ""), FALSE)
    /\ UNCHANGED <<connected, budget>>

\* startGame's 1 s timer fires: sendQuestion for the first question.
FirstQuestionTimer ==
    /\ ~crashed
    /\ timers.first >= 0
    /\ \E botAnswers \in [BotsOf(game) -> Choices] :
         Finish(sendQuestion([State EXCEPT !.timers.first = -1], botAnswers),
                Event("first", ""), FALSE)
    /\ UNCHANGED <<connected, budget>>

\* A NEXT_QUESTION_DELAY timer fires: nextQuestion.  Pause timers fire in the
\* order they were set; one set during the countdown fires after it (3 s each),
\* one set after startGame fires after the 1 s first-question timer.
NextQuestionTimer ==
    /\ ~crashed
    /\ timers.next > 0
    /\ ~timers.start
    /\ timers.first # 0
    /\ \E botAnswers \in [BotsOf(game) -> Choices] :
         \E s \in {[State EXCEPT
                        !.timers.next = @ - 1,
                        !.timers.first = IF @ > 0 THEN @ - 1 ELSE @,
                        !.timers.deadline =
                            [i \in DOMAIN @ |->
                                [@[i] EXCEPT !.older = IF @ > 0 THEN @ - 1 ELSE 0]]]} :
            \E r \in {nextQuestion(s, botAnswers)} :
               Finish(r, Event("next", ""), FALSE)
    /\ UNCHANGED <<connected, budget>>

\* The oldest deadline timer fires (all have the same 30 s delay).  The pause
\* timers that were pending when it was set and the bot answers of its own and
\* earlier emissions (at most 15 s) have fired by then.
DeadlineTimer ==
    /\ ~crashed
    /\ timers.deadline # <<>>
    /\ LET d == Head(timers.deadline) IN
         /\ d.older = 0
         /\ \A b \in timers.bot : b.seq > d.seq
         /\ Finish(deadlineCallback([State EXCEPT !.timers.deadline = Tail(@)],
                                    d.questionId),
                   Event("deadline",
                         IF HasCurrentQuestion(game) /\ CurrentQuestionId(game) = d.questionId
                         THEN "timed_out" ELSE "stale"),
                   FALSE)
    /\ UNCHANGED <<connected, budget>>

\* A bot's scheduled answer is delivered: handleBotAnswer.
BotAnswerTimer ==
    /\ ~crashed
    /\ \E b \in timers.bot :
         Finish(handleBotAnswer([State EXCEPT !.timers.bot = @ \ {b}],
                                b.bot, b.questionId, b.answerId),
                Event("bot_answer",
                      botOutcome(State, b.bot, b.questionId, b.answerId)),
                FALSE)
    /\ UNCHANGED <<connected, budget>>

\* A suspended endGame resumes after its awaits, every database call having
\* succeeded.  (What the database answers does not reach the match state.)
EndGameTeardown ==
    /\ ~crashed
    /\ \E i \in DOMAIN timers.teardown :
         Finish(endGameResume(State, i, FALSE, {}), Event("teardown", "saved"), TRUE)
    /\ UNCHANGED <<connected, budget>>

\* A suspended endGame resumes after its awaits; saveMatch, or the profile
\* update of any of the players, may have failed.
EndGameTeardownFaulty ==
    /\ ~crashed
    /\ \E i \in DOMAIN timers.teardown, saveFails \in BOOLEAN :
         \E failing \in SUBSET Range(timers.teardown[i].players) :
            /\ saveFails => failing = {}
            /\ Finish(endGameResume(State, i, saveFails, failing),
                      Event("teardown",
                            IF saveFails /\ timers.teardown[i].players # <<>>
                            THEN "save_failed" ELSE "saved"),
                      TRUE)
    /\ UNCHANGED <<connected, budget>>

\* The 60 s retention timer fires: activeGames.delete(matchId).
CleanupTimer ==
    /\ ~crashed
    /\ timers.cleanup > 0
    /\ Finish([State EXCEPT !.timers.cleanup = @ - 1,
                            !.activeGames = @ \ {MatchId}],
              Event("cleanup", ""), FALSE)
    /\ UNCHANGED <<connected, budget>>

Next ==
    \/ CreateMatch
    \/ CreateMatchWithBots
    \/ SubmitAnswer
    \/ Disconnect
    \/ StartTimer
    \/ FirstQuestionTimer
    \/ NextQuestionTimer
    \/ DeadlineTimer
    \/ BotAnswerTimer
    \/ EndGameTeardown
    \/ CleanupTimer

Spec == Init /\ [][Next]_vars

\* A human match over the long pool (three rounds), the clients sending at
\* most MaxSubmitsLong submit_answer messages.
InitLong ==
    /\ questionsByLanguage = LongQuestionPool
    /\ game = NoGame
    /\ activeGames = {}
    /\ timers = NoTimers
    /\ out = NoOutput
    /\ connected = Humans
    /\ crashed = FALSE
    /\ lastEvent = NoEvent
    /\ budget = MaxSubmitsLong
    /\ NoQueue
    /\ NoBots

NextLong ==
    \/ CreateMatch
    \/ SubmitAnswer
    \/ Disconnect
    \/ StartTimer
    \/ FirstQuestionTimer
    \/ NextQuestionTimer
    \/ DeadlineTimer
    \/ EndGameTeardown
    \/ CleanupTimer

SpecLong == InitLong /\ [][NextLong]_vars

\* A human match whose database calls may fail, the clients sending at most
\* MaxSubmits submit_answer messages.
InitPersist ==
    /\ questionsByLanguage = QuestionPool
    /\ game = NoGame
    /\ activeGames = {}
    /\ timers = NoTimers
    /\ out = NoOutput
    /\ connected = Humans
    /\ crashed = FALSE
    /\ lastEvent = NoEvent
    /\ budget = MaxSubmits
    /\ NoQueue
    /\ NoBots

NextPersist ==
    \/ CreateMatch
    \/ SubmitAnswer
    \/ Disconnect
    \/ StartTimer
    \/ FirstQuestionTimer
    \/ NextQuestionTimer
    \/ DeadlineTimer
    \/ EndGameTeardownFaulty
    \/ CleanupTimer

SpecPersist == InitPersist /\ [][NextPersist]_vars

\* join_queue of the second player of a bucket of any language: as CreateMatch,
\* the gameState keeping the bucket's language in its preferences.
CreateMatchInLanguage ==
    /\ ~crashed
    /\ game.status = "none"
    /\ Humans \subseteq connected
    /\ \E language \in Languages :
         LET questions == getQuestionsForMatch(QUESTIONS_PER_GAME) IN
         /\ game' = [newGame(<<"h1", "h2">>, {}, questions) EXCEPT !.language = language]
         /\ out' = [out EXCEPT !.roundScores = [i \in 1 .. Len(questions) + 1 |-> 0]]
    /\ activeGames' = activeGames \cup {MatchId}
    /\ timers' = [timers EXCEPT !.start = TRUE]
    /\ lastEvent' = Event("create", "humans")
    /\ UNCHANGED <<questionsByLanguage, connected, crashed, budget>>
    /\ UNCHANGED <<queueVars, botVars>>

\* A human match of any language, the clients sending at most MaxSubmits
\* submit_answer messages.
InitCategory ==
    /\ questionsByLanguage = QuestionPool
    /\ game = NoGame
    /\ activeGames = {}
    /\ timers = NoTimers
    /\ out = NoOutput
    /\ connected = Humans
    /\ crashed = FALSE
    /\ lastEvent = NoEvent
    /\ budget = MaxSubmits
    /\ NoQueue
    /\ NoBots

NextCategory ==
    \/ CreateMatchInLanguage
    \/ SubmitAnswer
    \/ Disconnect
    \/ StartTimer
    \/ FirstQuestionTimer
    \/ NextQuestionTimer
    \/ DeadlineTimer
    \/ EndGameTeardown
    \/ CleanupTimer

SpecCategory == InitCategory /\ [][NextCategory]_vars

\* The scenario match: a pool of exactly QUESTIONS_PER_GAME questions.
ScenarioPool == 1 .. QUESTIONS_PER_GAME

\* the question of the current index has been emitted and its deadline timer
\* is still pending
InItsRound(questionId) ==
    /\ game.status = "in_progress"
    /\ HasCurrentQuestion(game)
    /\ CurrentQuestionId(game) = questionId
    /\ Len(out.question) > 0
    /\ out.question[Len(out.question)] = game.currentQuestionIndex
    /\ \E i \in DOMAIN timers.deadline : timers.deadline[i].questionId = questionId

\* A client sends submit_answer for the current question before its deadline;
\* the first participant always with the correct option.
SubmitInRound ==
    /\ ~crashed
    /\ \E socketId \in connected, answerId \in Choices, questionId \in questionsByLanguage :
         /\ InItsRound(questionId)
         /\ socketId = "h1" => answerId = correctAnswer(questionId)
         /\ submitOutcome(State, socketId, questionId, answerId) = "accepted"
         /\ Finish(submitAnswer(State, socketId, questionId, answerId),
                   Event("submit_answer", "accepted"), TRUE)
    /\ UNCHANGED <<connected, budget>>

\* A deadline timer fires, the first participant having answered its question.
DeadlineAfterAnswer ==
    /\ timers.deadline # <<>>
    /\ HasAnswered(game.players["h1"], Head(timers.deadline).questionId)
    /\ DeadlineTimer

InitScenario ==
    /\ questionsByLanguage = ScenarioPool
    /\ game = NoGame
    /\ activeGames = {}
    /\ timers = NoTimers
    /\ out = NoOutput
    /\ connected = Humans
    /\ crashed = FALSE
    /\ lastEvent = NoEvent
    /\ budget = -1
    /\ NoQueue
    /\ NoBots

NextScenario ==
    \/ CreateMatch
    \/ SubmitInRound
    \/ StartTimer
    \/ FirstQuestionTimer
    \/ NextQuestionTimer
    \/ DeadlineAfterAnswer
    \/ EndGameTeardown
    \/ CleanupTimer

\* Two participants who stay connected play five questions; the first answers
\* every question correctly before its deadline.
SpecScenario == InitScenario /\ [][NextScenario]_vars

\* join_queue of the second player of a bucket of any difficulty: as
\* CreateMatch, tryStartMatchForPreference recording the difficulty's limit.
CreateMatchWithDifficulty ==
    /\ ~crashed
    /\ game.status = "none"
    /\ Humans \subseteq connected
    /\ \E difficulty \in Difficulties :
         LET questions == getQuestionsForMatch(QUESTIONS_PER_GAME) IN
         /\ game' = [newGame(<<"h1", "h2">>, {}, questions)
                        EXCEPT !.questionTimeLimit = getTimeLimit(difficulty) * 1000]
         /\ out' = [out EXCEPT !.roundScores = [i \in 1 .. Len(questions) + 1 |-> 0]]
    /\ activeGames' = activeGames \cup {MatchId}
    /\ timers' = [timers EXCEPT !.start = TRUE]
    /\ lastEvent' = Event("create", "humans")
    /\ UNCHANGED <<questionsByLanguage, connected, crashed, budget>>
    /\ UNCHANGED <<queueVars, botVars>>

NextDifficulty ==
    \/ CreateMatchWithDifficulty
    \/ SubmitAnswer
    \/ Disconnect
    \/ StartTimer
    \/ FirstQuestionTimer
    \/ NextQuestionTimer
    \/ DeadlineTimer
    \/ EndGameTeardown
    \/ CleanupTimer

\* A human match of any difficulty, the clients sending at most MaxSubmits
\* submit_answer messages.
SpecDifficulty == InitCategory /\ [][NextDifficulty]_vars

\* ---------------------------------------------------------------- matchmaking
\* MatchmakingService's queue and the matches it makes.  A match is kept here
\* by what matchmaking reads and writes: its human sockets (the keys of
\* game.players, in Map order), the number of its bots (each has a fresh
\* socket id of its own), who is inactive, the status, the pending countdown,
\* suspended endGame calls and retention timers, and whether
\* activeGames.delete has removed it.  The play of a match is Spec's subject;
\* here a started match ends when its questions have run out.

\* The state the matchmaking operators work on.
QueueState ==
    [waiting |-> waitingPlayersByPreference, queueTimers |-> queueTimers,
     matches |-> matches]

RemoveAt(seq, i) == SubSeq(seq, 1, i - 1) \o SubSeq(seq, i + 1, Len(seq))

\* the first place of x in seq (findIndex); 0 when absent
IndexOf(seq, x) ==
    IF x \in Range(seq) THEN CHOOSE i \in DOMAIN seq :
                                 seq[i] = x /\ \A j \in 1 .. i - 1 : seq[j] # x
    ELSE 0

\* the keys of new Map(players.map(p => [p.socketId, ...])): first occurrences
MapKeys(seq) ==
    SelectSeq([i \in DOMAIN seq |-> [id |-> seq[i], first |-> IndexOf(seq, seq[i]) = i]],
              LAMBDA e : e.first)

\* this.waitingPlayersByPreference.get(prefKey) || []
getQueue(q, prefKey) ==
    IF \E i \in DOMAIN q.waiting : q.waiting[i].prefKey = prefKey
    THEN q.waiting[CHOOSE i \in DOMAIN q.waiting : q.waiting[i].prefKey = prefKey].queue
    ELSE <<>>

\* a bucket's array after a splice, and the delete of an emptied bucket
setQueue(q, prefKey, queue) ==
    LET i == CHOOSE i \in DOMAIN q.waiting : q.waiting[i].prefKey = prefKey IN
    IF queue = <<>>
    THEN [q EXCEPT !.waiting = RemoveAt(@, i)]
    ELSE [q EXCEPT !.waiting[i].queue = queue]

\* clearBotSpawnTimer: clearTimeout and queueTimers.delete
clearBotSpawnTimer(q, socketId) ==
    [q EXCEPT !.queueTimers = [s \in DOMAIN @ \ {socketId} |-> @[s]]]

\* startBotSpawnTimer: the timer remembers the socket and the bucket key
startBotSpawnTimer(q, socketId, prefKey) ==
    LET q1 == clearBotSpawnTimer(q, socketId) IN
    [q1 EXCEPT !.queueTimers =
        [s \in DOMAIN @ \cup {socketId} |->
            IF s = socketId THEN [prefKey |-> prefKey, fired |-> FALSE] ELSE @[s]]]

\* addToQueue: get or create the bucket, push, start the fill timer
addToQueue(q, socketId, prefKey) ==
    LET q1 == IF \E i \in DOMAIN q.waiting : q.waiting[i].prefKey = prefKey
              THEN q
              ELSE [q EXCEPT !.waiting = Append(@, [prefKey |-> prefKey, queue |-> <<>>])]
        i == CHOOSE i \in DOMAIN q1.waiting : q1.waiting[i].prefKey = prefKey
    IN  startBotSpawnTimer([q1 EXCEPT !.waiting[i].queue = Append(@, socketId)],
                           socketId, prefKey)

\* (mutant) removeFromQueue without clearBotSpawnTimer
removeFromQueueKeepingTimer(q, socketId) ==
    LET hits == {i \in DOMAIN q.waiting : socketId \in Range(q.waiting[i].queue)}
    IN  IF hits = {} THEN q
        ELSE LET i == CHOOSE i \in hits : \A j \in hits : i <= j
                 b == q.waiting[i]
             IN  setQueue(q, b.prefKey, RemoveAt(b.queue, IndexOf(b.queue, socketId)))

\* removeFromQueue: the first entry of the socket in the first bucket (Map
\* order) that has one
removeFromQueue(q, socketId) ==
    LET q1 == clearBotSpawnTimer(q, socketId)
        hits == {i \in DOMAIN q1.waiting : socketId \in Range(q1.waiting[i].queue)}
    IN  IF hits = {} THEN q1
        ELSE LET i == CHOOSE i \in hits : \A j \in hits : i <= j
                 b == q1.waiting[i]
             IN  setQueue(q1, b.prefKey, RemoveAt(b.queue, IndexOf(b.queue, socketId)))

RECURSIVE clearTimers(_, _)
\* players.forEach(p => this.clearBotSpawnTimer(p.socketId))
clearTimers(q, players) ==
    IF players = <<>> THEN q
    ELSE clearTimers(clearBotSpawnTimer(q, Head(players)), Tail(players))

\* the gameState createMatch / createMatchWithBots puts in activeGames
newMatch(players, numBots) ==
    [players |-> players, numBots |-> numBots, inactive |-> {},
     status |-> "waiting", countdown |-> TRUE, started |-> FALSE,
     teardown |-> 0, cleanup |-> 0, deleted |-> FALSE]

\* createMatch taking the entrants newest first
createMatchNewestFirst(q, prefKey) ==
    LET queue == getQueue(q, prefKey) IN
    IF Len(queue) < 2 THEN q
    ELSE LET playersCount == Min(Len(queue), 4)
             players == [i \in 1 .. playersCount |-> queue[Len(queue) + 1 - i]]
             q1 == setQueue(q, prefKey, SubSeq(queue, 1, Len(queue) - playersCount))
             q2 == clearTimers(q1, players)
             keys == MapKeys(players)
         IN  [q2 EXCEPT !.matches =
                 Append(@, newMatch([i \in DOMAIN keys |-> keys[i].id], 0))]

\* canStartMatch + createMatch(prefKey, 2, 4) + the countdown of
\* tryStartMatchForPreference
createMatch(q, prefKey) ==
    LET queue == getQueue(q, prefKey) IN
    IF Len(queue) < 2 THEN q
    ELSE LET playersCount == Min(Len(queue), 4)
             players == SubSeq(queue, 1, playersCount)
             q1 == setQueue(q, prefKey, SubSeq(queue, playersCount + 1, Len(queue)))
             q2 == clearTimers(q1, players)
             keys == MapKeys(players)
         IN  [q2 EXCEPT !.matches =
                 Append(@, newMatch([i \in DOMAIN keys |-> keys[i].id], 0))]

\* createMatchWithBots leaving the human's entry in the bucket
createMatchWithBotsKeepingEntry(q, humanSocketId, prefKey, numBots) ==
    LET queue == getQueue(q, prefKey)
        humanPlayerIndex == IndexOf(queue, humanSocketId)
    IN  IF humanPlayerIndex = 0 THEN q
        ELSE LET q1 == clearBotSpawnTimer(q, humanSocketId)
             IN  [q1 EXCEPT !.matches = Append(@, newMatch(<<humanSocketId>>, numBots))]

\* createMatchWithBots + startBotMatch
createMatchWithBots(q, humanSocketId, prefKey, numBots) ==
    LET queue == getQueue(q, prefKey)
        humanPlayerIndex == IndexOf(queue, humanSocketId)
    IN  IF humanPlayerIndex = 0 THEN q
        ELSE LET q1 == clearBotSpawnTimer(
                           setQueue(q, prefKey, RemoveAt(queue, humanPlayerIndex)),
                           humanSocketId)
             IN  [q1 EXCEPT !.matches = Append(@, newMatch(<<humanSocketId>>, numBots))]

\* the callback of startBotSpawnTimer
fillTimerCallback(q, socketId, prefKey, numBots) ==
    LET queue == getQueue(q, prefKey) IN
    IF socketId \in Range(queue) /\ Len(queue) < 2
    THEN createMatchWithBots(q, socketId, prefKey, numBots)
    ELSE q

\* getGameBySocket over the matches still in activeGames: the first one whose
\* players have the socket; 0 when none
firstGameOf(q, socketId) ==
    LET hits == {i \in DOMAIN q.matches :
                    ~q.matches[i].deleted /\ socketId \in Range(q.matches[i].players)}
    IN  IF hits = {} THEN 0 ELSE CHOOSE i \in hits : \A j \in hits : i <= j

\* MatchmakingService.endGame(matchId) for match i
endMatch(q, i) ==
    IF q.matches[i].deleted THEN q
    ELSE [q EXCEPT !.matches[i].status = "completed", !.matches[i].cleanup = @ + 1]

\* endGame for match i up to its awaits: status, and (unless no active player
\* is left for the standings) a suspended rest
completeMatch(q, i) ==
    LET m == q.matches[i]
        anyActive == m.numBots > 0 \/ Range(m.players) \ m.inactive # {}
    IN  [q EXCEPT !.matches[i].status = "completed",
                  !.matches[i].teardown = IF anyActive THEN @ + 1 ELSE @]

\* MatchmakingService.handlePlayerDisconnect with its queue part
leaveAll(q, socketId) ==
    LET q1 == removeFromQueue(q, socketId)
        i == firstGameOf(q1, socketId)
    IN  IF i = 0 THEN q1 ELSE [q1 EXCEPT !.matches[i].inactive = @ \cup {socketId}]

\* both 'disconnect' listeners for a socket, in registration order
disconnectListeners(q, socketId) ==
    LET q1 == leaveAll(q, socketId)
        i == firstGameOf(q1, socketId)
        q2 == IF i # 0 /\ Range(q1.matches[i].players) \ q1.matches[i].inactive = {}
                       /\ q1.matches[i].status = "in_progress"
              THEN completeMatch(q1, i) ELSE q1
        q3 == leaveAll(q2, socketId)
        j == firstGameOf(q3, socketId)
    IN  IF j # 0 /\ q3.matches[j].numBots = 0
                 /\ Range(q3.matches[j].players) \ q3.matches[j].inactive = {}
        THEN endMatch(q3, j) ELSE q3

\* the matchmaking operators' result becomes the new state
FinishQueue(q) ==
    /\ waitingPlayersByPreference' = q.waiting
    /\ queueTimers' = q.queueTimers
    /\ matches' = q.matches
    /\ UNCHANGED <<matchVars, botVars, lastEvent>>

\* A client sends join_queue: the handler suspends in its database lookup.
JoinQueue ==
    /\ budget > 0
    /\ budget' = budget - 1
    /\ \E socketId \in connected, prefKey \in PrefKeys :
         joining' = Append(joining, [socketId |-> socketId, prefKey |-> prefKey])
    /\ UNCHANGED <<matchVars, botVars, lastEvent, connected, waitingPlayersByPreference,
                   queueTimers, matches>>

\* A suspended join_queue resumes: the lookup failed (catch: error emitted),
\* or addToQueue and tryStartMatchForPreference run.
JoinQueueResume ==
    /\ \E i \in DOMAIN joining, ok \in BOOLEAN :
         LET j == joining[i]
             q1 == addToQueue(QueueState, j.socketId, j.prefKey)
             q2 == createMatch(q1, j.prefKey)
         IN  /\ joining' = RemoveAt(joining, i)
             /\ FinishQueue(IF ok THEN q2 ELSE QueueState)
    /\ UNCHANGED <<connected, budget>>

\* A client sends leave_queue.
LeaveQueue ==
    /\ \E socketId \in connected :
         /\ socketId \in DOMAIN queueTimers
               \/ \E i \in DOMAIN waitingPlayersByPreference :
                     socketId \in Range(waitingPlayersByPreference[i].queue)
         /\ FinishQueue(removeFromQueue(QueueState, socketId))
    /\ UNCHANGED <<connected, budget, joining>>

\* A fill timer fires after 12 s.
FillTimer ==
    /\ \E socketId \in DOMAIN queueTimers, numBots \in FillBotCounts :
         LET timer == queueTimers[socketId]
             q1 == [QueueState EXCEPT !.queueTimers[socketId].fired = TRUE]
             q2 == fillTimerCallback(q1, socketId, timer.prefKey, numBots)
         IN  /\ ~timer.fired
             /\ FinishQueue(q2)
    /\ UNCHANGED <<connected, budget, joining>>

\* A socket disconnects.
QueueDisconnect ==
    /\ \E socketId \in connected :
         /\ connected' = connected \ {socketId}
         /\ FinishQueue(disconnectListeners(QueueState, socketId))
    /\ UNCHANGED <<budget, joining>>

\* The countdown of a match fires: startGame.
MatchStart ==
    /\ \E i \in DOMAIN matches :
         /\ matches[i].countdown
         /\ FinishQueue([QueueState EXCEPT !.matches[i].countdown = FALSE,
                                           !.matches[i].started = TRUE,
                                           !.matches[i].status = "in_progress"])
    /\ UNCHANGED <<connected, budget, joining>>

\* The questions of a started match have run out: nextQuestion calls endGame.
MatchOver ==
    /\ \E i \in DOMAIN matches :
         /\ matches[i].started
         /\ FinishQueue(completeMatch([QueueState EXCEPT !.matches[i].started = FALSE], i))
    /\ UNCHANGED <<connected, budget, joining>>

\* A suspended endGame resumes: matchmakingService.endGame(matchId).
MatchTeardown ==
    /\ \E i \in DOMAIN matches :
         /\ matches[i].teardown > 0
         /\ FinishQueue(endMatch([QueueState EXCEPT !.matches[i].teardown = @ - 1], i))
    /\ UNCHANGED <<connected, budget, joining>>

\* A 60 s retention timer fires: activeGames.delete(matchId).
MatchCleanup ==
    /\ \E i \in DOMAIN matches :
         /\ matches[i].cleanup > 0
         /\ FinishQueue([QueueState EXCEPT !.matches[i].cleanup = @ - 1,
                                           !.matches[i].deleted = TRUE])
    /\ UNCHANGED <<connected, budget, joining>>

InitQueue ==
    /\ questionsByLanguage = QuestionPool
    /\ game = NoGame
    /\ activeGames = {}
    /\ timers = NoTimers
    /\ out = NoOutput
    /\ connected = Humans
    /\ crashed = FALSE
    /\ lastEvent = NoEvent
    /\ budget = MaxJoins
    /\ NoQueue
    /\ NoBots

NextQueue ==
    \/ JoinQueue
    \/ JoinQueueResume
    \/ LeaveQueue
    \/ FillTimer
    \/ QueueDisconnect
    \/ MatchStart
    \/ MatchOver
    \/ MatchTeardown
    \/ MatchCleanup

SpecQueue == InitQueue /\ [][NextQueue]_vars

\* A preference key whose language and difficulty are in no metadata list.
UnrecognizedPrefKey == "cobol:extreme"

\* A client sends join_queue with preferences the server does not know: the
\* handler takes them as they are and suspends in its database lookup.
JoinQueueUnrecognized ==
    /\ budget > 0
    /\ budget' = budget - 1
    /\ \E socketId \in connected :
         joining' = Append(joining, [socketId |-> socketId,
                                     prefKey |-> UnrecognizedPrefKey])
    /\ UNCHANGED <<matchVars, botVars, lastEvent, connected, waitingPlayersByPreference,
                   queueTimers, matches>>

NextQueueAnyPrefs ==
    \/ NextQueue
    \/ JoinQueueUnrecognized

\* The matchmaking queue with clients that may send any preferences.
SpecQueueAnyPrefs == InitQueue /\ [][NextQueueAnyPrefs]_vars

\* ------------------------------------------------------------ BotService

\* BotService.botNames: the themed pool.  The source lists 36 names; the model
\* keeps two of them, so that two fill matches exhaust the pool.
botNames == {"CodeWizard", "BugSlayer"}

\* Math.floor(Math.random() * 100), the number appended to a name once the pool
\* is exhausted, takes SuffixCount values here (100 in the source)
SuffixCount == 2

\* fill matches made in the exploration of the name reservations
MaxBotMatches == 2

\* A username is the pool name alone, <<name>>, or the pool name followed by
\* the number, <<name, number>>: two usernames are equal as the two strings are.
BotState == [used |-> usedBotNames, active |-> activeBots]

\* createBot, lines 168-176: the names the random draw can give
botNameChoices(b) ==
    LET availableNames == {<<name>> : name \in botNames} \ b.used
    IN  IF availableNames # {} THEN availableNames
        ELSE {<<name, number>> : name \in botNames, number \in 0 .. SuffixCount - 1}

\* createBot with the drawn name: usedBotNames.add, activeBots.get(matchId).push
createBot(b, matchId, botName) ==
    [used |-> b.used \cup {botName},
     active |-> [m \in DOMAIN b.active \cup {matchId} |->
                    IF m = matchId
                    THEN IF m \in DOMAIN b.active THEN Append(b.active[m], botName)
                         ELSE <<botName>>
                    ELSE b.active[m]]]

\* createBots: every outcome of count draws
RECURSIVE createBots(_, _, _)
createBots(b, matchId, count) ==
    IF count = 0 THEN {b}
    ELSE UNION {createBots(createBot(b, matchId, botName), matchId, count - 1) :
                   botName \in botNameChoices(b)}

\* cleanupBots: the match's usernames leave usedBotNames, its entry activeBots
cleanupBots(b, matchId) ==
    IF matchId \in DOMAIN b.active
    THEN [used |-> b.used \ Range(b.active[matchId]),
          active |-> [m \in DOMAIN b.active \ {matchId} |-> b.active[m]]]
    ELSE b

\* The fill timer makes a match with bots: createMatchWithBots draws numBots and
\* calls botService.createBots(matchId, numBots).  The match id is the match's
\* place in creation order (a fresh uuid in the source).
BotMatchCreated ==
    /\ Len(matches) < MaxBotMatches
    /\ \E numBots \in FillBotCounts :
         \E b \in createBots(BotState, Len(matches) + 1, numBots) :
            /\ usedBotNames' = b.used
            /\ activeBots' = b.active
            /\ matches' = Append(matches, newMatch(<<"h1">>, numBots))
    /\ UNCHANGED <<matchVars, lastEvent, connected, budget,
                   waitingPlayersByPreference, queueTimers, joining>>

\* MatchmakingService.endGame(matchId) of a match still in activeGames: status
\* completed, botService.cleanupBots(matchId), 60 s retention timer.  A further
\* endGame of the same match finds no activeBots entry and changes no
\* reservation, so the first call is the one explored.
BotMatchOver ==
    /\ \E i \in DOMAIN matches :
         /\ ~matches[i].deleted
         /\ matches[i].status # "completed"
         /\ LET b == cleanupBots(BotState, i)
                q == endMatch(QueueState, i)
            IN  /\ usedBotNames' = b.used
                /\ activeBots' = b.active
                /\ matches' = q.matches
    /\ UNCHANGED <<matchVars, lastEvent, connected, budget,
                   waitingPlayersByPreference, queueTimers, joining>>

NextBots ==
    \/ BotMatchCreated
    \/ BotMatchOver
    \/ MatchCleanup

SpecBots == InitQueue /\ [][NextBots]_vars

TypeOK ==
    /\ game.status \in {"none", "waiting", "in_progress", "completed"}
    /\ activeGames \subseteq {MatchId}
    /\ connected \subseteq Humans
    /\ crashed \in BOOLEAN

\* ---------------------------------------------------------------- properties
\* The properties are stated on the state itself, not through the handlers'
\* own helper operators.

Players == DOMAIN game.players

AnswersOf(g, id) == g.players[id].answers

\* the places in a player's answers that hold a record for questionId
RecordsFor(g, id, questionId) ==
    {i \in DOMAIN AnswersOf(g, id) : AnswersOf(g, id)[i].questionId = questionId}

\* a handler pushed one answer record for player id in this step
RecordAdded(id) ==
    /\ id \in DOMAIN game.players
    /\ id \in DOMAIN game'.players
    /\ Len(AnswersOf(game', id)) = Len(AnswersOf(game, id)) + 1

AddedQuestionId(id) == AnswersOf(game', id)[Len(AnswersOf(game', id))].questionId

Scores(g) == [id \in DOMAIN g.players |-> g.players[id].score]

EveryActiveHasRecord(g, questionId) ==
    \A id \in DOMAIN g.players :
        g.players[id].isActive => RecordsFor(g, id, questionId) # {}

\* the deadline timer at the head of the queue fired in this step
DeadlineFired == Len(timers'.deadline) < Len(timers.deadline)

\* the index of the round a question id belongs to
RoundOf(questionId) == CHOOSE k \in 0 .. Len(game.questions) - 1 :
                           game.questions[k + 1] = questionId

\* what has been broadcast and saved so far
Emitted(o) ==
    [question |-> o.question, roundScores |-> o.roundScores,
     gameStart |-> o.gameStart, gameEnd |-> o.gameEnd,
     saveMatch |-> o.saveMatch, playerLeft |-> o.playerLeft]

AtMostOneRecord ==
    \A id \in Players, q \in questionsByLanguage :
        Cardinality(RecordsFor(game, id, q)) <= 1

\* C1: every participant has at most one answer record per question id; a
\* record, once made, is never replaced, and a submission rejected as a
\* duplicate changes nothing of the match (records, scores, broadcasts, timers).
C1_OneRecordPerQuestion ==
    [][ /\ AtMostOneRecord'
        /\ \A id \in Players, q \in questionsByLanguage :
              RecordsFor(game, id, q) # {} =>
                 /\ RecordsFor(game', id, q) = RecordsFor(game, id, q)
                 /\ \A i \in RecordsFor(game, id, q) :
                       AnswersOf(game', id)[i] = AnswersOf(game, id)[i]
        /\ (lastEvent'.type = "submit_answer" /\ lastEvent'.result = "duplicate")
              => /\ game' = game
                 /\ Emitted(out') = Emitted(out)
                 /\ timers' = timers
      ]_vars

\* C1 witness: during a round, a second submission for an answered question
\* has been rejected
C1_Witness ==
    /\ lastEvent.type = "submit_answer"
    /\ lastEvent.result = "duplicate"
    /\ game.status = "in_progress"
    /\ out.question # <<>>
    /\ HasCurrentQuestion(game)
    /\ \E id \in Players : RecordsFor(game, id, CurrentQuestionId(game)) # {}

\* C2: the deadline timer of a round that the all-answered check has already
\* resolved is a no-op when it fires: no round_scores broadcast, no score
\* change, no advance of the index and no further pause timer.
C2_StaleDeadlineIsNoOp ==
    [][ (DeadlineFired
           /\ RoundOf(Head(timers.deadline).questionId) \in out.resolvedEarly)
        => /\ out'.roundScores = out.roundScores
           /\ Scores(game') = Scores(game)
           /\ game'.currentQuestionIndex = game.currentQuestionIndex
           /\ timers'.next = timers.next
      ]_vars

\* C3: when a recorded answer completes the set of active participants that
\* have answered the current question, round_scores is broadcast in that step.
C3_AllAnsweredResolvesAtOnce ==
    [][ (/\ HasCurrentQuestion(game)
         /\ \E id \in Players : RecordAdded(id)
         /\ ~EveryActiveHasRecord(game, CurrentQuestionId(game))
         /\ EveryActiveHasRecord(game', CurrentQuestionId(game)))
        => /\ out'.roundScores[game.currentQuestionIndex + 1]
                 = out.roundScores[game.currentQuestionIndex + 1] + 1
           /\ timers'.next = timers.next + 1
      ]_vars

\* C3 witness: a bot's answer was the last one missing and resolved the round
C3_Witness ==
    /\ lastEvent.type = "bot_answer"
    /\ lastEvent.result = "accepted"
    /\ HasCurrentQuestion(game)
    /\ game.currentQuestionIndex \in out.resolvedEarly
    /\ \E id \in Players : ~game.players[id].isBot /\ game.players[id].isActive

\* C4: every round is resolved exactly once and the questions are emitted one
\* by one in selection order: no round has two round_scores broadcasts, and
\* the emitted ordinals are 1, 2, 3, ... without a repeat or a gap.
C4_EachRoundResolvedOnce ==
    /\ \A k \in DOMAIN out.roundScores : out.roundScores[k] <= 1
    /\ \A i \in DOMAIN out.question : out.question[i] = i - 1

\* C5: currentQuestionIndex never exceeds questions.length
C5_IndexAtMostLength ==
    game.currentQuestionIndex <= Len(game.questions)

\* C6: currentQuestionIndex never decreases
C6_IndexNeverDecreases ==
    [][game'.currentQuestionIndex >= game.currentQuestionIndex]_vars

\* C6 witness: the index has advanced past the first question
C6_Witness ==
    /\ game.status = "in_progress"
    /\ game.currentQuestionIndex = 1
    /\ Len(out.question) = 2

CorrectCount(g, id) ==
    Cardinality({i \in DOMAIN AnswersOf(g, id) : AnswersOf(g, id)[i].isCorrect})

\* C7: every participant's score is 100 times the number of its answer
\* records marked correct, in every state (so the points are added in the
\* step that records the answer)
C7_ScoreIsHundredPerCorrect ==
    \A id \in Players : game.players[id].score = 100 * CorrectCount(game, id)

\* C7 witness: a participant with two correct records and one with a wrong one
C7_Witness ==
    /\ \E id \in Players : CorrectCount(game, id) = 2
    /\ \E id \in Players :
          /\ AnswersOf(game, id) # <<>>
          /\ CorrectCount(game, id) < Len(AnswersOf(game, id))

\* C8: while a question is being played, a submit_answer is recorded only if
\* its question id is the id of the current question (any other id is
\* rejected: no record, no score change, nothing triggered)
C8_OnlyCurrentQuestionAccepted ==
    [][ \A id \in Players :
          (/\ lastEvent'.type = "submit_answer"
           /\ game.status = "in_progress"
           /\ out.question # <<>>
           /\ RecordAdded(id))
          => /\ HasCurrentQuestion(game)
             /\ AddedQuestionId(id) = CurrentQuestionId(game)
      ]_vars

\* C9: a submission is recorded and scored only while the status is in_progress
C9_AcceptedOnlyInProgress ==
    [][ \A id \in Players :
          (lastEvent'.type = "submit_answer" /\ RecordAdded(id))
          => game.status = "in_progress"
      ]_vars

\* C10: the question of round k+1 is emitted only after the round_scores of
\* round k has been broadcast (out.question holds the emitted indices,
\* out.roundScores[k+1] counts the broadcasts computed for index k)
C10_NoQuestionBeforePreviousScores ==
    \A i \in DOMAIN out.question :
        out.question[i] >= 1 => out.roundScores[out.question[i]] >= 1

StatusRank(status) ==
    CASE status = "none" -> 0
      [] status = "waiting" -> 1
      [] status = "in_progress" -> 2
      [] status = "completed" -> 3

\* C11: the status of a match only moves forward along waiting, in_progress,
\* completed; in particular a completed match stays completed.
C11_StatusOnlyForward ==
    [][StatusRank(game'.status) >= StatusRank(game.status)]_vars

HasActiveHuman(g) ==
    \E id \in DOMAIN g.players : g.players[id].isActive /\ ~g.players[id].isBot

\* a socket of the match's roster disconnected in this step
RosterDisconnect ==
    \E id \in connected \ connected' : id \in DOMAIN game.players

\* C12: when a participant's disconnect leaves an in_progress match without an
\* active human participant, the status is completed when the disconnect
\* handlers have run.
C12_LastHumanLeavingCompletes ==
    [][ (/\ RosterDisconnect
         /\ game.status = "in_progress"
         /\ ~HasActiveHuman(game'))
        => game'.status = "completed"
      ]_vars

\* C12 witness: the human of a match with bots left during a round; the match
\* is completed while its bots are still active
C12_Witness ==
    /\ lastEvent.type = "disconnect"
    /\ lastEvent.result = "left"
    /\ game.status = "completed"
    /\ out.question # <<>>
    /\ ~HasActiveHuman(game)
    /\ \E id \in Players : game.players[id].isBot /\ game.players[id].isActive

\* C13: when a disconnect during a round leaves only active participants that
\* have all answered the current question (and a human among them), the round
\* is resolved by that disconnect: round_scores is broadcast and the pause
\* timer for the next question is set.
C13_DisconnectResolvesRound ==
    [][ (/\ RosterDisconnect
         /\ game.status = "in_progress"
         /\ out.question # <<>>
         /\ HasCurrentQuestion(game)
         /\ out.roundScores[game.currentQuestionIndex + 1] = 0
         /\ ~EveryActiveHasRecord(game, CurrentQuestionId(game))
         /\ EveryActiveHasRecord(game', CurrentQuestionId(game))
         /\ HasActiveHuman(game'))
        => /\ out'.roundScores[game.currentQuestionIndex + 1] = 1
           /\ timers'.next = timers.next + 1
      ]_vars

\* the place of a participant in the roster
RosterPosition(id) == CHOOSE i \in DOMAIN game.order : game.order[i] = id

StandingsIds(fs) == {fs[i].id : i \in DOMAIN fs}

\* C14: the standings of a game_end are in descending score order, equal
\* scores in roster order, the ranks are the positions 1..K, and the winner is
\* the entry at rank 1.
C14_StandingsSortedStable ==
    LET fs == out.finalScores IN
    fs # <<>> =>
       /\ \A i, j \in DOMAIN fs :
             i < j => /\ fs[i].score >= fs[j].score
                      /\ fs[i].score = fs[j].score
                            => RosterPosition(fs[i].id) < RosterPosition(fs[j].id)
       /\ \A i \in DOMAIN fs : fs[i].rank = i
       /\ out.winner = fs[1].id

\* C14 witness: standings of three with a tie and a strict difference
C14_Witness ==
    LET fs == out.finalScores IN
    /\ Len(fs) = 3
    /\ \E i \in 1 .. 2 : fs[i].score = fs[i + 1].score
    /\ \E i \in 1 .. 2 : fs[i].score > fs[i + 1].score

\* C15: the standings of a game_end hold every participant of the roster,
\* inactive ones included, each with its accumulated score.
C15_StandingsHoldWholeRoster ==
    LET fs == out.finalScores IN
    fs # <<>> =>
       /\ StandingsIds(fs) = DOMAIN game.players
       /\ \A i \in DOMAIN fs : fs[i].score = game.players[fs[i].id].score

\* C16: the players handed to db.saveMatch never include a simulated
\* participant; standings without a human lead to no saveMatch call, and
\* standings with humans hand over exactly those, in standings order.
C16_OnlyHumansPersisted ==
    LET fs == out.finalScores
        humans == {i \in DOMAIN fs : ~game.players[fs[i].id].isBot}
    IN  /\ \A i \in DOMAIN out.saved : ~game.players[out.saved[i]].isBot
        /\ fs # <<>> =>
              /\ humans = {} => out.saved = <<>> /\ out.calls = <<"game_end">>
              /\ humans # {} =>
                    /\ Range(out.saved) = {fs[i].id : i \in humans}
                    /\ Len(out.saved) = Cardinality(humans)
                    /\ out.calls = <<"game_end", "saveMatch">>

\* C16 witness: a match with bots ended with its human in the standings
C16_Witness ==
    /\ Len(out.finalScores) = 3
    /\ Len(out.saved) = 1
    /\ ~game.players[out.saved[1]].isBot
    /\ \E i \in DOMAIN out.finalScores : out.finalScores[i].isBot

\* C17: db.saveMatch is called at most once for a match
C17_SaveMatchAtMostOnce == out.saveMatch <= 1

\* a suspended endGame resumed in this step
TeardownStep == Len(timers'.teardown) < Len(timers.teardown)

\* C18: game_end is broadcast before saveMatch is called; whatever database
\* call fails, the resumed endGame reaches matchmakingService.endGame (the
\* match is completed and its retention timer set), and when saveMatch
\* succeeded the profile update is called for every saved player, also after
\* the update of another player failed.
C18_PersistenceFailuresSwallowed ==
    [][ /\ out'.saved # <<>> => out'.calls = <<"game_end", "saveMatch">>
        /\ TeardownStep =>
              /\ MatchId \in activeGames =>
                    /\ game'.status = "completed"
                    /\ timers'.cleanup = timers.cleanup + 1
              /\ ~out'.persist.saveFailed =>
                    out'.persist.attempted = Range(out'.persist.players)
      ]_vars

\* C18 witness: the profile update of one of two saved players failed, the
\* other player's history was written and the teardown was done
C18_Witness ==
    /\ lastEvent.type = "teardown"
    /\ Len(out.persist.players) = 2
    /\ out.persist.attempted = Range(out.persist.players)
    /\ Cardinality(out.persist.inserted) = 1
    /\ out.persist.inserted = {out.persist.players[2]}
    /\ game.status = "completed"
    /\ timers.cleanup > 0

\* the matches of activeGames that are not completed and have the socket
LiveMatchesOf(socketId) ==
    {i \in DOMAIN matches :
        /\ ~matches[i].deleted
        /\ matches[i].status # "completed"
        /\ socketId \in Range(matches[i].players)}

\* C19: a connection is a participant of at most one match that is not
\* completed
C19_AtMostOneLiveMatch ==
    \A socketId \in Humans : Cardinality(LiveMatchesOf(socketId)) <= 1

\* the number of distinct participants of a match
RosterSize(m) == Cardinality(Range(m.players)) + m.numBots

\* C20: every match has between 2 and 4 distinct participants, bots included
C20_RosterBetweenTwoAndFour ==
    \A i \in DOMAIN matches : RosterSize(matches[i]) >= 2 /\ RosterSize(matches[i]) <= 4

\* the queue entries of a socket: (bucket, place) pairs over all buckets
QueueEntriesOf(socketId) ==
    {e \in (DOMAIN waitingPlayersByPreference) \X (1 .. MaxJoins) :
        /\ e[2] \in DOMAIN waitingPlayersByPreference[e[1]].queue
        /\ waitingPlayersByPreference[e[1]].queue[e[2]] = socketId}

\* C21: a connection has at most one queue entry over all preference buckets
C21_AtMostOneQueueEntry ==
    \A socketId \in Humans : Cardinality(QueueEntriesOf(socketId)) <= 1

\* leave_queue of this socket has just run (and found something to remove)
Dequeued(socketId) ==
    /\ LeaveQueue
    /\ \/ Cardinality(QueueEntriesOf(socketId)') < Cardinality(QueueEntriesOf(socketId))
       \/ socketId \in DOMAIN queueTimers /\ socketId \notin DOMAIN queueTimers'

\* C22: after a dequeue of a connection no queue entry of it remains in any
\* bucket, it has no pending fill timer, and a second dequeue changes nothing
C22_DequeueRemovesAndIsIdempotent ==
    [][\A socketId \in Humans :
          Dequeued(socketId) =>
              /\ QueueEntriesOf(socketId)' = {}
              /\ socketId \notin DOMAIN queueTimers'
              /\ removeFromQueue(QueueState', socketId) = QueueState']_vars

\* C23: a join with an unrecognized category or difficulty adds no queue
\* entry, creates no bucket and starts no fill timer
C23_UnrecognizedPreferencesRejected ==
    /\ \A i \in DOMAIN waitingPlayersByPreference :
          waitingPlayersByPreference[i].prefKey \in PrefKeys
    /\ \A socketId \in DOMAIN queueTimers : queueTimers[socketId].prefKey \in PrefKeys

\* a bucket's entries in the order they were pushed; empty when no bucket
BucketQueue(w, prefKey) ==
    IF \E i \in DOMAIN w : w[i].prefKey = prefKey
    THEN w[CHOOSE i \in DOMAIN w : w[i].prefKey = prefKey].queue
    ELSE <<>>

\* a occurs in seq before any occurrence of b
Precedes(seq, a, b) ==
    \E i \in DOMAIN seq : seq[i] = a /\ \A j \in 1 .. i : seq[j] # b

\* C24: a match formed from a bucket takes the entrants in join order: the
\* entrants placed are a prefix of the bucket's join order, the ones left
\* behind are the rest, and the roster lists the placed ones in join order
C24_FormationInJoinOrder ==
    [][Len(matches') = Len(matches) + 1 =>
          LET m == matches'[Len(matches')] IN
          \E prefKey \in PrefKeys :
             LET before == BucketQueue(waitingPlayersByPreference, prefKey)
                 after == BucketQueue(waitingPlayersByPreference', prefKey)
             IN  \/ /\ m.numBots = 0
                    /\ \E i \in DOMAIN joining :
                          /\ joining[i].prefKey = prefKey
                          /\ joining' = RemoveAt(joining, i)
                          /\ LET joinOrder == Append(before, joining[i].socketId)
                                 taken == Len(joinOrder) - Len(after)
                             IN  /\ taken >= 2
                                 /\ after = SubSeq(joinOrder, taken + 1, Len(joinOrder))
                                 /\ Range(m.players) = Range(SubSeq(joinOrder, 1, taken))
                                 /\ \A a, b \in DOMAIN m.players :
                                       a < b => Precedes(joinOrder, m.players[a],
                                                         m.players[b])
                 \/ /\ m.numBots > 0
                    /\ joining' = joining
                    /\ before # <<>>
                    /\ m.players = <<Head(before)>>
                    /\ after = Tail(before)]_vars

\* a match of two players was formed whose second entrant in name order had
\* joined first, and a match was filled with bots
C24_Witness ==
    /\ \E i \in DOMAIN matches : matches[i].players = <<"h2", "h1">>
    /\ \E i \in DOMAIN matches : matches[i].numBots > 0

\* the fill timer of this socket has just expired
Expired(socketId) ==
    /\ FillTimer
    /\ socketId \in DOMAIN queueTimers
    /\ ~queueTimers[socketId].fired
    /\ socketId \notin DOMAIN queueTimers' \/ queueTimers'[socketId].fired

\* the timer's player is in the timer's bucket and the bucket is below 2
StillAlone(socketId) ==
    LET before == BucketQueue(waitingPlayersByPreference, queueTimers[socketId].prefKey)
    IN  socketId \in Range(before) /\ Len(before) < 2

\* C25: a fill timer that expires while its player is in the bucket and the
\* bucket is below 2 removes the player from the bucket and creates a match
\* of that player and 2 or 3 bots; otherwise the expiry creates no match
C25_FillTimerMakesBotMatch ==
    [][\A socketId \in Humans :
          Expired(socketId) =>
              IF StillAlone(socketId)
              THEN /\ Len(matches') = Len(matches) + 1
                   /\ SubSeq(matches', 1, Len(matches)) = matches
                   /\ matches'[Len(matches')].players = <<socketId>>
                   /\ matches'[Len(matches')].numBots \in {2, 3}
                   /\ socketId \notin Range(BucketQueue(waitingPlayersByPreference',
                                                         queueTimers[socketId].prefKey))
              ELSE /\ matches' = matches
                   /\ waitingPlayersByPreference' = waitingPlayersByPreference]_vars

\* a fill timer has expired and made a match of one player and three bots
C25_Witness ==
    \E i \in DOMAIN matches :
        /\ matches[i].numBots = 3
        /\ Len(matches[i].players) = 1
        /\ matches[i].players[1] \notin DOMAIN queueTimers

\* The queue when nobody withdraws or disconnects.
NextQueueStaying ==
    \/ JoinQueue
    \/ JoinQueueResume
    \/ FillTimer
    \/ MatchStart
    \/ MatchOver
    \/ MatchTeardown
    \/ MatchCleanup

\* Every pending timer fires and every suspended handler resumes.
QueueFairness ==
    /\ \A socketId \in Humans : WF_vars(Expired(socketId))
    /\ WF_vars(JoinQueueResume)
    /\ WF_vars(MatchStart)
    /\ WF_vars(MatchOver)
    /\ WF_vars(MatchTeardown)
    /\ WF_vars(MatchCleanup)

SpecQueueFair == InitQueue /\ [][NextQueueStaying]_vars /\ QueueFairness

\* C26: under fair firing of timers a player who neither withdraws nor
\* disconnects does not stay in the queue for ever
C26_NoPlayerWaitsForever ==
    \A socketId \in Humans :
        (QueueEntriesOf(socketId) # {}) ~> (QueueEntriesOf(socketId) = {})

\* the round of the question is over: the match has moved past it
RoundOver(questionId) ==
    \/ questionId \notin Range(game.questions)
    \/ game.currentQuestionIndex > RoundOf(questionId)

\* C27: a message carries a question's correct option only to a client that
\* has submitted an answer for that question (or once the question is over),
\* and the question broadcast never carries it
C27_CorrectOptionOnlyAfterSubmission ==
    \A k \in DOMAIN out.sent :
        LET msg == out.sent[k] IN
        /\ msg.type = "question" => "correctAnswer" \notin DOMAIN msg.payload
        /\ "correctAnswer" \in DOMAIN msg.payload =>
              \A socketId \in msg.to :
                  \/ RecordsFor(game, socketId, msg.questionId) # {}
                  \/ RoundOver(msg.questionId)

\* a client that answered the current question wrongly has just been sent
\* its correct option
C27_Witness ==
    \E k \in DOMAIN out.sent :
        /\ out.sent[k].type = "answer_result"
        /\ ~out.sent[k].payload.correct
        /\ HasCurrentQuestion(game)
        /\ out.sent[k].questionId = CurrentQuestionId(game)
        /\ game.status = "in_progress"
        /\ Len(out.question) = game.currentQuestionIndex + 1

\* C30: the question payload of a round is the match's current question (its
\* id and content in the match's language) with ordinal index+1 and the total
C30_PayloadIsCurrentQuestion ==
    \A k \in DOMAIN out.sent :
        out.sent[k].type = "question" =>
            out.sent[k].payload =
                [id |-> CurrentQuestionId(game),
                 content |-> questionContent(game.language, CurrentQuestionId(game)),
                 questionNumber |-> game.currentQuestionIndex + 1,
                 totalQuestions |-> Len(game.questions)]

\* C28: when the first participant answers every question correctly in time
\* and the second has exactly two correct answers, game_end carries the first
\* at rank 1 with 500, the second at rank 2 with 200, and the first as winner
C28_ScenarioStandings ==
    [][(out'.gameEnd > out.gameEnd /\ CorrectCount(game', "h2") = 2) =>
          /\ out'.finalScores =
                <<[id |-> "h1", score |-> QUESTIONS_PER_GAME * basePoints,
                   isBot |-> FALSE, rank |-> 1],
                  [id |-> "h2", score |-> 2 * basePoints,
                   isBot |-> FALSE, rank |-> 2]>>
          /\ out'.winner = "h1"]_vars

\* C29: a bot's scheduled answer, a round deadline or an inter-round timer
\* that fires once the match is completed changes no score, adds no answer
\* record, advances no index and emits nothing
C29_NothingAfterCompletion ==
    [][(game.status = "completed"
          /\ lastEvent'.type \in {"bot_answer", "deadline", "next"}) =>
          /\ game' = game
          /\ Emitted(out') = Emitted(out)]_vars

\* C31: the delay of every round deadline timer is the time limit the match
\* recorded at formation for its difficulty
C31_DeadlineIsDifficultyLimit ==
    \A i \in DOMAIN timers.deadline :
        timers.deadline[i].delay = game.questionTimeLimit

\* this step took a queue entry of the socket away or placed the socket in a
\* new match
LeftOrMatched(socketId) ==
    \/ Cardinality(QueueEntriesOf(socketId)') < Cardinality(QueueEntriesOf(socketId))
    \/ /\ Len(matches') = Len(matches) + 1
       /\ socketId \in Range(matches'[Len(matches')].players)

\* C32: once a player leaves the queue or is placed in a match, no fill timer
\* of that player is left that could form a match: the timer is cancelled in
\* the same step, so a timer that fires later was started by a later enqueue
C32_FillTimerCancelled ==
    [][\A socketId \in Humans :
          LeftOrMatched(socketId) =>
              \/ socketId \notin DOMAIN queueTimers'
              \/ queueTimers'[socketId].fired]_vars

\* a player left the queue, and a player placed in a match has enqueued again
\* and has a new pending fill timer
C32_Witness ==
    \E socketId \in Humans :
        /\ \E i \in DOMAIN matches : socketId \in Range(matches[i].players)
        /\ QueueEntriesOf(socketId) # {}
        /\ socketId \in DOMAIN queueTimers
        /\ ~queueTimers[socketId].fired

\* C33 (safety half): a match is deleted from activeGames only when it is
\* completed, i.e. not running
C33_RemovedOnlyWhenCompleted ==
    [][(MatchId \in activeGames /\ MatchId \notin activeGames') =>
          game.status = "completed"]_vars

\* the bots holding a reservation: (matchId, place) of every activeBots entry
LiveBots == {<<m, k>> \in (DOMAIN activeBots) \X (1 .. 3) : k <= Len(activeBots[m])}

\* C34: no two bots with a live name reservation share a username, within one
\* match and across concurrent matches, also after the pool is exhausted
C34_LiveBotNamesDistinct ==
    \A x, y \in LiveBots :
        x # y => activeBots[x[1]][x[2]] # activeBots[y[1]][y[2]]

\* C35: a connection whose disconnect has been handled has no queue entry and
\* no pending fill timer at any later time
C35_NothingQueuedAfterDisconnect ==
    \A socketId \in Humans \ connected :
        /\ QueueEntriesOf(socketId) = {}
        /\ \/ socketId \notin DOMAIN queueTimers
           \/ queueTimers[socketId].fired

\* C36: handling the disconnect of a connection that plays exactly one live
\* match leaves its participant inactive in that match, whatever completed
\* matches of the connection are still retained
C36_DisconnectReachesLiveMatch ==
    [][\A socketId \in connected \ connected' :
          \A i \in LiveMatchesOf(socketId) :
              LiveMatchesOf(socketId) = {i} => socketId \in matches'[i].inactive]_vars

\* C37: game_end is broadcast to the room at most once per match
C37_GameEndAtMostOnce == out.gameEnd <= 1

\* the disconnect of socketId makes the per-socket listener call endGame: the
\* match is addressable and in progress and no other human is active
LastHumanLeaves(socketId) ==
    /\ MatchId \in activeGames
    /\ socketId \in DOMAIN game.players
    /\ game.status = "in_progress"
    /\ \A id \in DOMAIN game.players \ {socketId} :
          game.players[id].isBot \/ ~game.players[id].isActive

\* C38: when the disconnect of the last active human makes endGame run, endGame
\* broadcasts the standings with a winner and reaches its teardown
C38_EndGameCompletes ==
    [][\A socketId \in connected \ connected' :
          LastHumanLeaves(socketId) =>
              /\ out'.gameEnd = out.gameEnd + 1
              /\ Len(timers'.teardown) = Len(timers.teardown) + 1]_vars

\* C39: the disconnect of a participant of an addressable match produces
\* exactly one player_left broadcast
C39_OnePlayerLeftPerDisconnect ==
    [][\A socketId \in connected \ connected' :
          (MatchId \in activeGames /\ socketId \in DOMAIN game.players) =>
              out'.playerLeft = out.playerLeft + 1]_vars

\* The play of a match of two humans who send at most MaxSubmits answers.
NextFair ==
    \/ CreateMatch
    \/ SubmitAnswer
    \/ Disconnect
    \/ StartTimer
    \/ FirstQuestionTimer
    \/ NextQuestionTimer
    \/ DeadlineTimer
    \/ EndGameTeardown
    \/ CleanupTimer

\* a pending timer of the match fires or a suspended endGame resumes
TimerFires ==
    \/ StartTimer
    \/ FirstQuestionTimer
    \/ NextQuestionTimer
    \/ DeadlineTimer
    \/ EndGameTeardown
    \/ CleanupTimer

\* The event loop does not stop while a timer is pending.  (That each single
\* timer fires follows: a match sets finitely many timers.)
TimerFairness == WF_vars(TimerFires)

SpecFair == InitCategory /\ [][NextFair]_vars /\ TimerFairness

====
